---- MODULE Spec2Model ----
\* State-machine model of super-gametable: the game pool (src/src/game_pool.rs),
\* the match adapter (src/src/game.rs), the AMQP client's consumer loop
\* (src/src/queue.rs) and the service wiring (src/src/main.rs).
EXTENDS Integers, Sequences, FiniteSets, TLC

\* ---------------------------------------------------------------- bounds
\* Deliveries the broker hands to the continuous consumer.
MaxDeliveries == 2
\* Continuing (Ok(true)) results one engine may return before it must stop.
MaxAdvance == 1
\* GameFinished messages sent by holders of GamePool::sender().
MaxFinish == 1
\* Capacity of the pool mailbox (mpsc::channel(100) in the code, smaller here
\* so that a full mailbox is reached).
MailboxCap == 2
\* Calls of publish_game_complete made by a user of the QueueClient.
MaxPublishes == 2

MatchIds == {"m1", "m2"}
\* Payloads of inbound deliveries: bytes that are no JSON ("garbage"), a JSON
\* value without a string under "match_id" ("{}"), or a JSON object carrying
\* the given match_id.
Payloads == {"garbage", "{}"} \cup MatchIds

IncomingTopic == "game.starting"
OutgoingTopic == "game.complete"

VARIABLES
    mailbox,        \* message_rx/message_tx: the queued GamePoolMessages
    poolState,      \* GamePool::run: "running", "stopped" (loop left), "aborted"
    poolAbortReq,   \* abort requested on the pool task (JoinSet::abort_all)
    active_games,   \* HashMap<String, JoinHandle<()>> as a set of [id, handle]
    jobs,           \* one record per start_game call; its index is the handle
    attempts,       \* every basic_publish the pool made, in order, with outcome
    lastMsg,        \* the mailbox message the pool processed last (history)
    inFlight,       \* the message whose handle_game_completion the loop awaits
    consumerPc,     \* start_consuming: "setup","waiting","acking","returned","aborted"
    consumerRes,    \* how start_consuming returned
    consumerAbortReq,
    deliveries,     \* deliveries the consumer stream yielded, with what was done
    handlerErrs,    \* handler calls that returned Err
    finishSent,     \* GameFinished messages sent so far
    clientHolds,    \* a client still holds the Sender that GamePool::sender() gave it
    lastRun,        \* the latest observed step of a run_game_sync thread (history)
    svcPc,          \* run_service position
    svcCause,       \* the arm of select! that ended the wait (history)
    oneShot,        \* QueueClient::consume_one: its queue, position and result
    seating,        \* one start_game call's players, controllers and GameSettings
    client,         \* QueueClient::new: what it opened and declared, and its result
    tool            \* run_tools QueueMatch: its position and the start it published

vars == <<mailbox, poolState, poolAbortReq, active_games, jobs, attempts, lastMsg,
          inFlight,
          consumerPc, consumerRes, consumerAbortReq, deliveries, handlerErrs,
          finishSent, clientHolds, lastRun, svcPc, svcCause, oneShot, seating, client, tool>>

poolVars == <<poolState, active_games, attempts, lastMsg, inFlight>>
consumerVars == <<consumerPc, consumerRes, deliveries, handlerErrs>>
svcVars == <<svcPc, svcCause, poolAbortReq, consumerAbortReq>>
clientVars == <<finishSent, clientHolds>>
callVars == <<oneShot, seating, client, tool>>

\* ------------------------------------------------------------- messages
StartGame(id) == [type |-> "StartGame", match_id |-> id, job |-> 0]
GameFinished(id) == [type |-> "GameFinished", match_id |-> id, job |-> 0]
\* job is a history field: the start_game call whose bridging task sent it.
GameComplete(id, j) == [type |-> "GameComplete", match_id |-> id, job |-> j]
GameError(id, j) == [type |-> "GameError", match_id |-> id, job |-> j]
Shutdown == [type |-> "Shutdown", match_id |-> "", job |-> 0]

NoMsg == [type |-> "none", match_id |-> "", job |-> 0, publish |-> "none",
          hadEntry |-> FALSE]

\* mpsc::Sender::try_send / send on the pool mailbox: the receiver lives as
\* long as GamePool::run has not returned or been dropped.
MailboxClosed == poolState # "running"
MailboxFull == Len(mailbox) >= MailboxCap

\* The clones of message_tx alive outside the pool: the one moved into the
\* handler (owned by the consumer task), run_service's game_pool_sender, and
\* a client's.
OutsideSenders ==
    {h \in {"handler"} : consumerPc \notin {"absent", "returned", "aborted"}}
    \cup {h \in {"service"} : svcPc \notin {"absent", "exited", "dropped"}}
    \cup {h \in {"client"} : clientHolds}

\* The pool_sender clones owned by the bridging tasks that have not ended.
BridgeSenders == {j \in DOMAIN jobs : jobs[j].bridge = "waiting"}

\* GamePool.message_tx: a field of the pool, alive until run(self) returns.
PoolHoldsSender == poolState = "running"

\* message_rx.recv() yields None: the mailbox is empty and no Sender is left.
RecvNone ==
    /\ mailbox = <<>>
    /\ OutsideSenders = {}
    /\ BridgeSenders = {}
    /\ ~PoolHoldsSender

QueuedStarts ==
    SelectSeq(mailbox, LAMBDA m : m.type = "StartGame")

\* ------------------------------------------------------------ the table
Ids(table) == {e.id : e \in table}
Handles(table) == {e.handle : e \in table}
EntriesFor(table, id) == {e \in table : e.id = id}

\* Mutant: an insert that keeps the entry already under the key.
Insert_NoReplace(table, id, h) == table \cup {[id |-> id, handle |-> h]}

\* Mutant: a remove that clears the whole table.
Remove_All(table, id) == {}

\* HashMap::insert: the entry under the key is replaced.
Insert(table, id, h) == {e \in table : e.id # id} \cup {[id |-> id, handle |-> h]}
\* HashMap::remove
Remove(table, id) == {e \in table : e.id # id}

\* Mutant: the handles are dropped without abort().
AbortAll_None(js, hs) == js

\* JoinHandle::abort on each handle of hs.
AbortAll(js, hs) ==
    [j \in DOMAIN js |-> IF j \in hs THEN [js[j] EXCEPT !.aborted = TRUE] ELSE js[j]]

\* ------------------------------------------------------------- the jobs
\* start_game: the blocking task is queued, the bridging task waits on status_rx.
NewJob(id) ==
    [id |-> id,
     worker |-> "queued",     \* "queued","running","returned","cancelled"
     aborted |-> FALSE,       \* abort() was called on the JoinHandle
     state |-> "None",        \* GameMatch.state: Option<GameState>
     advances |-> 0,          \* Ok(true) results of GameMatch::advance so far
     sends |-> 0,             \* blocking_send calls on status_tx
     sent |-> "none",         \* the GameStatus passed to blocking_send
     sendOk |-> FALSE,        \* whether that blocking_send returned Ok
     chan |-> "empty",        \* status channel: "empty","Finished","Error"
     bridge |-> "waiting"]    \* bridging task: "waiting","done","dropped"

\* create_game_complete_message
CreateGameCompleteMessage(id) == [match_id |-> id, status |-> "completed"]

\* Mutant: the publish of publish_game_starting (incoming topic, empty key).
PublishGameComplete_AsStarting(routing_key, data, ok, msg) ==
    [topic |-> IncomingTopic, key |-> "", payload |-> data, ok |-> ok,
     cause |-> msg.type, job |-> msg.job]

\* publish_game_complete: exchange, routing key and body of the basic_publish.
PublishGameComplete(routing_key, data, ok, msg) ==
    [topic |-> OutgoingTopic, key |-> routing_key, payload |-> data, ok |-> ok,
     cause |-> msg.type, job |-> msg.job]

\* handle_game_completion: one publish of the completion event for match_id.
HandleGameCompletion(match_id, ok, msg) ==
    <<PublishGameComplete(match_id, CreateGameCompleteMessage(match_id), ok, msg)>>

Published == SelectSeq(attempts, LAMBDA a : a.ok)


\* ------------------------------------------------------------ GameMatch
\* What libmahjong's GameState::advance and observe can answer on one call.
EngineOutcomes ==
    {[adv |-> "ok", observed |-> "Playing"],     \* new state, not at GameEnd
     [adv |-> "ok", observed |-> "GameEnd"],     \* new state observed at GameEnd
     [adv |-> "ok", observed |-> "none"],        \* new state, observe gives None
     [adv |-> "GameEnded", observed |-> "none"], \* Err(MahjongFFIError::GameEnded)
     [adv |-> "error", observed |-> "none"]}     \* any other MahjongFFIError

\* Mutant: the GameEnd snapshot is not looked at (the error-only variant).
Advance_ErrorOnly(state, o) ==
    IF state = "Some"
    THEN CASE o.adv = "ok" -> [res |-> "Ok(true)", state |-> "Some"]
           [] o.adv = "GameEnded" -> [res |-> "Ok(false)", state |-> "None"]
           [] OTHER -> [res |-> "Err", state |-> "None"]
    ELSE [res |-> "Err", state |-> "None"]

\* GameMatch::advance: Ok(true) continue, Ok(false) done, Err.
Advance(state, o) ==
    IF state = "Some"
    THEN CASE o.adv = "ok" ->
                 IF o.observed = "none" THEN [res |-> "Err", state |-> "Some"]
                 ELSE IF o.observed = "GameEnd" THEN [res |-> "Ok(false)", state |-> "Some"]
                 ELSE [res |-> "Ok(true)", state |-> "Some"]
           [] o.adv = "GameEnded" -> [res |-> "Ok(false)", state |-> "None"]
           [] OTHER -> [res |-> "Err", state |-> "None"]
    ELSE [res |-> "Err", state |-> "None"]

\* The match arms of run_game_sync's loop: the GameStatus it breaks with.
FinalStatus(res) ==
    CASE res = "Ok(false)" -> "Finished"
      [] res = "Err" -> "Error"
      [] OTHER -> "none"

\* No run_game_sync thread has made a step yet.
NoRun == [job |-> 0, step |-> "none", observed |-> "none", res |-> "none", calls |-> 0]

\* status_tx.blocking_send(status) followed by the return of run_game_sync:
\* the send fails when the bridging task's receiver is gone, and the failure
\* is only logged.
BlockingSend(job, status) ==
    [job EXCEPT !.sends = @ + 1,
                !.sent = status,
                !.sendOk = (job.bridge = "waiting"),
                !.chan = IF job.bridge = "waiting" THEN status ELSE @,
                !.worker = "returned"]

\* ------------------------------------------------- the topic exchange
\* Routing keys and binding keys: match ids, and "#", which as a binding key
\* of a topic exchange is the pattern that matches every routing key.
Keys == MatchIds \cup {"#"}

\* Mutant: the routing of a fanout exchange, which ignores the keys.
TopicMatches_Fanout(binding, key) == TRUE

\* The exchanges are declared ExchangeKind::Topic: a queue bound with
\* binding key b receives a message published with routing key k when b,
\* read as a pattern, matches k (the keys here are single words).
TopicMatches(binding, key) == binding = key \/ binding = "#"

NoOneShot == [pc |-> "idle", topic |-> "", key |-> "", queue |-> <<>>,
              boundAt |-> 0, calledAt |-> 0, acked |-> 0,
              result |-> [res |-> "none", data |-> "", key |-> "", idx |-> 0]]

\* basic_publish on an exchange: the broker puts the message on the queue of
\* consume_one if that queue is bound to the exchange with a matching key;
\* with no queue bound the message is dropped.
Route(q, a, idx) ==
    IF /\ a.ok
       /\ q.pc \in {"bound", "consuming"}
       /\ q.topic = a.topic
       /\ TopicMatches(q.key, a.key)
    THEN [q EXCEPT !.queue = Append(@, [data |-> a.payload, key |-> a.key, idx |-> idx])]
    ELSE q

\* ------------------------------------------------------- GamePool::run
\* Mutant: the arms run as tasks of their own, the loop takes the next
\* message without awaiting the one in hand.
PoolAtRecv_Always == TRUE

\* The loop is at message_rx.recv().await: the arm of the message before has
\* run to its end, its await of handle_game_completion included.
PoolAtRecv == inFlight = NoMsg

PoolTakes(type) ==
    /\ poolState = "running"
    /\ PoolAtRecv
    /\ mailbox # <<>>
    /\ Head(mailbox).type = type

\* StartGame arm: start_game always returns Ok(handle); the handle is inserted.
PoolStartGame ==
    /\ PoolTakes("StartGame")
    /\ LET msg == Head(mailbox)
           h == Len(jobs) + 1
       IN /\ jobs' = Append(jobs, NewJob(msg.match_id))
          /\ active_games' = Insert(active_games, msg.match_id, h)
          /\ lastMsg' = [msg EXCEPT !.job = h] @@
                        [publish |-> "none",
                         hadEntry |-> msg.match_id \in Ids(active_games)]
    /\ mailbox' = Tail(mailbox)
    /\ UNCHANGED <<poolState, poolAbortReq, attempts, inFlight, consumerPc, consumerRes,
                   consumerAbortReq, deliveries, handlerErrs, clientVars, svcPc, svcCause, lastRun, callVars>>

\* GameFinished arm: remove the entry and abort its handle, if there is one.
PoolGameFinished ==
    /\ PoolTakes("GameFinished")
    /\ LET msg == Head(mailbox)
       IN /\ jobs' = AbortAll(jobs, Handles(EntriesFor(active_games, msg.match_id)))
          /\ active_games' = Remove(active_games, msg.match_id)
          /\ lastMsg' = msg @@ [publish |-> "none",
                                hadEntry |-> msg.match_id \in Ids(active_games)]
    /\ mailbox' = Tail(mailbox)
    /\ UNCHANGED <<poolState, poolAbortReq, attempts, inFlight, consumerPc, consumerRes,
                   consumerAbortReq, deliveries, handlerErrs, clientVars, svcPc, svcCause, lastRun, callVars>>

\* Mutant: the entry is removed only when the publish succeeded.
AfterCompletion_OnlyIfPublished(table, id, published) ==
    IF published THEN Remove(table, id) ELSE table

\* The table after the GameComplete and GameError arms: the remove follows
\* the if-let on handle_game_completion's result, whatever that result was.
AfterCompletion(table, id, published) == Remove(table, id)

\* Mutant: the error of handle_game_completion is propagated with ? and ends run.
LoopAfterCompletion_Propagate(published) == IF published THEN "running" ELSE "stopped"

\* The loop after the GameComplete and GameError arms: an Err of
\* handle_game_completion is logged by the if-let and the loop goes on.
LoopAfterCompletion(published) == "running"

\* GameComplete and GameError arms, up to the await: the message is taken
\* and handle_game_completion is called; the loop waits for its publish.
PoolGameCompletion(type) ==
    /\ PoolTakes(type)
    /\ inFlight' = Head(mailbox) @@
                    [publish |-> "none",
                     hadEntry |-> Head(mailbox).match_id \in Ids(active_games)]
    /\ mailbox' = Tail(mailbox)
    /\ UNCHANGED <<poolState, poolAbortReq, active_games, jobs, attempts, lastMsg,
                   consumerVars, clientVars, svcPc, svcCause, consumerAbortReq, lastRun, callVars>>

PoolGameComplete == PoolGameCompletion("GameComplete")
PoolGameError == PoolGameCompletion("GameError")

\* The rest of those arms: handle_game_completion returns (its publish
\* succeeded or failed), then the remove. An abort of the pool task takes
\* effect at the await instead, and the rest of the arm never runs.
PoolCompletionReturns ==
    /\ poolState = "running"
    /\ inFlight # NoMsg
    /\ \E outcome \in {"ok", "failed", "cancelled"} :
         /\ outcome = "cancelled" => poolAbortReq
         /\ lastMsg' = [inFlight EXCEPT !.publish = outcome]
         /\ IF outcome = "cancelled"
            THEN /\ poolState' = "aborted"
                 /\ UNCHANGED <<attempts, active_games, oneShot>>
            ELSE /\ attempts' = attempts \o
                       HandleGameCompletion(inFlight.match_id, outcome = "ok", inFlight)
                 /\ oneShot' = Route(oneShot,
                                     HandleGameCompletion(inFlight.match_id,
                                                          outcome = "ok", inFlight)[1],
                                     Len(attempts) + 1)
                 /\ active_games' = AfterCompletion(active_games, inFlight.match_id,
                                                    outcome = "ok")
                 /\ poolState' = LoopAfterCompletion(outcome = "ok")
    /\ inFlight' = NoMsg
    /\ UNCHANGED <<mailbox, poolAbortReq, jobs, consumerVars, clientVars, svcPc, svcCause,
                   consumerAbortReq, lastRun, seating, client, tool>>

\* Shutdown arm: abort every handle drained from the table, then break; the
\* pool (and its receiver) is dropped when run returns.
PoolShutdown ==
    /\ PoolTakes("Shutdown")
    /\ jobs' = AbortAll(jobs, Handles(active_games))
    /\ active_games' = {}
    /\ poolState' = "stopped"
    /\ lastMsg' = Head(mailbox) @@ [publish |-> "none", hadEntry |-> FALSE]
    /\ mailbox' = Tail(mailbox)
    /\ UNCHANGED <<poolAbortReq, attempts, inFlight, consumerPc, consumerRes,
                   consumerAbortReq, deliveries, handlerErrs, clientVars, svcPc, svcCause, lastRun, callVars>>

\* message_rx.recv().await on an empty mailbox: it stays pending while a
\* Sender is alive; on None the while-let ends, and run returns dropping the
\* table (a dropped JoinHandle detaches its task, it does not abort it).
PoolRecvIdle ==
    /\ poolState = "running"
    /\ PoolAtRecv
    /\ mailbox = <<>>
    /\ IF RecvNone
       THEN /\ poolState' = "stopped"
            /\ active_games' = {}
            /\ lastMsg' = [NoMsg EXCEPT !.type = "closed"]
       ELSE UNCHANGED <<poolState, active_games, lastMsg>>
    /\ UNCHANGED <<mailbox, poolAbortReq, jobs, attempts, inFlight, consumerVars,
                   clientVars, svcPc, svcCause, consumerAbortReq, lastRun, callVars>>

\* The pool task is cancelled while it waits in message_rx.recv().
PoolAborted ==
    /\ poolState = "running"
    /\ PoolAtRecv
    /\ poolAbortReq
    /\ poolState' = "aborted"
    /\ UNCHANGED <<mailbox, poolAbortReq, active_games, jobs, attempts, lastMsg, inFlight,
                   consumerPc, consumerRes, consumerAbortReq, deliveries,
                   handlerErrs, clientVars, svcPc, svcCause, lastRun, callVars>>


\* ------------------------------------------------------- run_game_sync
\* Mutant: no return after the Error sent for a failed try_new.
RunStart_NoReturn(job, built) ==
    IF built
    THEN [job EXCEPT !.worker = "running", !.state = "Some"]
    ELSE [BlockingSend(job, "Error") EXCEPT !.worker = "running"]

\* The blocking thread starts: GameMatch::try_new succeeds, or fails and the
\* runner sends GameStatus::Error and returns.
RunStart(job, built) ==
    IF built
    THEN [job EXCEPT !.worker = "running", !.state = "Some"]
    ELSE BlockingSend(job, "Error")

WorkerStartStep(j, built) ==
    /\ j \in DOMAIN jobs
    /\ jobs[j].worker = "queued"
    /\ jobs' = [jobs EXCEPT ![j] = RunStart(@, built)]
    /\ UNCHANGED <<mailbox, poolVars, consumerVars, svcVars, clientVars, callVars>>

WorkerStart(j) ==
    \E built \in BOOLEAN : WorkerStartStep(j, built) /\ UNCHANGED lastRun

\* The same step, with what try_new answered written to the history lastRun.
ObservedWorkerStart(j) ==
    \E built \in BOOLEAN :
        /\ WorkerStartStep(j, built)
        /\ lastRun' = [job |-> j, step |-> IF built THEN "built" ELSE "construct_failed",
                       observed |-> "none", res |-> "none", calls |-> 0]

\* One turn of the loop: advance, then sleep and loop on Ok(true), or break
\* with the final status, send it and return.
RunTurn(job, o) ==
    LET a == Advance(job.state, o)
    IN IF a.res = "Ok(true)"
       THEN [job EXCEPT !.advances = @ + 1, !.state = a.state]
       ELSE BlockingSend([job EXCEPT !.advances = 0, !.state = a.state],
                         FinalStatus(a.res))

WorkerAdvanceStep(j, o) ==
    /\ j \in DOMAIN jobs
    /\ jobs[j].worker = "running"
    /\ Advance(jobs[j].state, o).res = "Ok(true)" => jobs[j].advances < MaxAdvance
    /\ jobs' = [jobs EXCEPT ![j] = RunTurn(@, o)]
    /\ UNCHANGED <<mailbox, poolVars, consumerVars, svcVars, clientVars, callVars>>

WorkerAdvance(j) ==
    \E o \in EngineOutcomes : WorkerAdvanceStep(j, o) /\ UNCHANGED lastRun

\* The same step, with what the engine answered written to the history lastRun.
ObservedWorkerAdvance(j) ==
    \E o \in EngineOutcomes :
        /\ WorkerAdvanceStep(j, o)
        /\ lastRun' = [job |-> j, step |-> o.adv, observed |-> o.observed,
                       res |-> Advance(jobs[j].state, o).res,
                       calls |-> jobs[j].advances + 1]

\* JoinHandle::abort on a spawn_blocking task that has not started yet may
\* keep it from starting (once started it cannot be aborted); a runtime that
\* is shutting down drops the blocking tasks still queued. status_tx is
\* dropped unsent.
WorkerCancelled(j) ==
    /\ j \in DOMAIN jobs
    /\ jobs[j].worker = "queued"
    /\ jobs[j].aborted \/ svcPc = "dropped"
    /\ jobs' = [jobs EXCEPT ![j].worker = "cancelled"]
    /\ UNCHANGED <<mailbox, poolVars, consumerVars, svcVars, clientVars, lastRun, callVars>>

\* -------------------------------------------- start_game's bridging task
\* Mutant: every status is forwarded as GameError.
BridgeMessage_AlwaysError(job, j) == GameError(job.id, j)

\* The message the bridging task builds from the status it received.
BridgeMessage(job, j) ==
    IF job.chan = "Finished" THEN GameComplete(job.id, j) ELSE GameError(job.id, j)

\* status_rx.recv() yields the status; pool_sender.send(msg).await enqueues
\* it once the mailbox has room, or fails (logged) when the pool is gone.
BridgeForward(j) ==
    /\ j \in DOMAIN jobs
    /\ jobs[j].bridge = "waiting"
    /\ jobs[j].chan \in {"Finished", "Error"}
    /\ MailboxClosed \/ ~MailboxFull
    /\ mailbox' = IF MailboxClosed THEN mailbox
                  ELSE Append(mailbox, BridgeMessage(jobs[j], j))
    /\ jobs' = [jobs EXCEPT ![j].bridge = "done", ![j].chan = "taken"]
    /\ UNCHANGED <<poolVars, consumerVars, svcVars, clientVars, lastRun, callVars>>

\* status_rx.recv() yields None: the sender was dropped without a status.
BridgeEnd(j) ==
    /\ j \in DOMAIN jobs
    /\ jobs[j].bridge = "waiting"
    /\ jobs[j].worker = "cancelled"
    /\ jobs' = [jobs EXCEPT ![j].bridge = "done"]
    /\ UNCHANGED <<mailbox, poolVars, consumerVars, svcVars, clientVars, lastRun, callVars>>

\* ------------------------------------------------------ other senders
\* A holder of GamePool::sender() sends GameFinished{match_id}.
SendGameFinished(id) ==
    /\ clientHolds
    /\ finishSent < MaxFinish
    /\ ~MailboxClosed /\ ~MailboxFull
    /\ mailbox' = Append(mailbox, GameFinished(id))
    /\ finishSent' = finishSent + 1
    /\ UNCHANGED <<poolVars, jobs, consumerVars, svcVars, clientHolds, lastRun, callVars>>


\* A client sends StartGame{match_id} through its Sender.
ClientStartGame(id) ==
    /\ clientHolds
    /\ Len(jobs) + Len(QueuedStarts) < MaxDeliveries
    /\ ~MailboxClosed /\ ~MailboxFull
    /\ mailbox' = Append(mailbox, StartGame(id))
    /\ UNCHANGED <<poolVars, jobs, consumerVars, svcVars, clientVars, lastRun, callVars>>

\* The client drops its Sender.
ClientDropsSender ==
    /\ clientHolds
    /\ clientHolds' = FALSE
    /\ UNCHANGED <<mailbox, poolVars, jobs, consumerVars, svcVars, finishSent, lastRun, callVars>>

\* ------------------------------------------------ game_starting_handler
\* serde_json::from_slice(data) into a serde_json::Value, and the match_id
\* read from it: message["match_id"].as_str().unwrap_or("").
FromSlice(payload) ==
    CASE payload = "garbage" -> [ok |-> FALSE, match_id |-> ""]
      [] payload = "{}" -> [ok |-> TRUE, match_id |-> ""]
      [] OTHER -> [ok |-> TRUE, match_id |-> payload]

\* Mutant: a send on an unbounded channel, which never answers Full.
TrySend_Unbounded == IF MailboxClosed THEN "Closed" ELSE "Ok"

\* sender.try_send(msg) on the pool mailbox: Ok, or Err(Full) / Err(Closed)
\* at once, without waiting.
TrySend ==
    IF MailboxClosed THEN "Closed" ELSE IF MailboxFull THEN "Full" ELSE "Ok"

\* serde_json::from_slice fails on bytes that are no JSON; otherwise the
\* handler try_sends StartGame and returns Ok whatever try_send answered.
HandlerOk(payload) == FromSlice(payload).ok

\* What the handler's try_send answered ("none": try_send was not reached).
HandlerSend(payload) == IF HandlerOk(payload) THEN TrySend ELSE "none"

HandlerEnqueues(payload) ==
    IF HandlerSend(payload) = "Ok"
    THEN <<StartGame(FromSlice(payload).match_id)>>
    ELSE <<>>

\* ------------------------------------------ QueueClient::start_consuming
NoResult == [result |-> "none", cause |-> "none"]

\* queue_declare, queue_bind and basic_consume: each failure returns Err.
ConsumerSetup ==
    /\ consumerPc = "setup"
    /\ \E ok \in BOOLEAN :
         IF ok
         THEN consumerPc' = "waiting" /\ UNCHANGED consumerRes
         ELSE /\ consumerPc' = "returned"
              /\ consumerRes' = [result |-> "Err", cause |-> "setup"]
    /\ UNCHANGED <<mailbox, poolVars, jobs, deliveries, handlerErrs, svcVars, clientVars, lastRun, callVars>>

\* consumer.next() yields Some(Ok(delivery)).
ConsumerNext ==
    /\ consumerPc = "waiting"
    /\ Len(deliveries) < MaxDeliveries
    /\ \E p \in Payloads :
         deliveries' = Append(deliveries,
                              [payload |-> p, handled |-> 0, acked |-> 0,
                               handlerOk |-> FALSE, ackFirst |-> FALSE,
                               sendRes |-> "none"])
    /\ consumerPc' = "handling"
    /\ UNCHANGED <<mailbox, poolVars, jobs, consumerRes, handlerErrs, svcVars, clientVars, lastRun, callVars>>

\* The broker delivers a burst of start events, one more than the mailbox
\* holds, each a JSON object carrying a match_id.
MaxBurst == MailboxCap + 1
StartPayloads == MatchIds

ConsumerNextBurst ==
    /\ consumerPc = "waiting"
    /\ Len(deliveries) < MaxBurst
    /\ \E p \in StartPayloads :
         deliveries' = Append(deliveries,
                              [payload |-> p, handled |-> 0, acked |-> 0,
                               handlerOk |-> FALSE, ackFirst |-> FALSE,
                               sendRes |-> "none"])
    /\ consumerPc' = "handling"
    /\ UNCHANGED <<mailbox, poolVars, jobs, consumerRes, handlerErrs, svcVars, clientVars, lastRun, callVars>>

\* Mutant: a failed handler skips the acknowledgement.
AfterHandler_SkipAck(ok) == IF ok THEN "acking" ELSE "waiting"

\* Mutant: a failed handler's error is returned from start_consuming.
AfterHandler_Propagate(ok) == IF ok THEN "acking" ELSE "returned"

\* The loop body after the handler call: on to the acknowledgement, whatever
\* the handler returned.
AfterHandler(ok) == "acking"

\* handler(&delivery.data); an Err is logged.
ConsumerHandle ==
    /\ consumerPc = "handling"
    /\ LET d == Len(deliveries)
           p == deliveries[d].payload
       IN /\ mailbox' = mailbox \o HandlerEnqueues(p)
          /\ deliveries' = [deliveries EXCEPT ![d].handled = @ + 1,
                                              ![d].handlerOk = HandlerOk(p),
                                              ![d].sendRes = HandlerSend(p)]
          /\ handlerErrs' = IF HandlerOk(p) THEN handlerErrs ELSE handlerErrs + 1
          /\ consumerPc' = AfterHandler(HandlerOk(p))
    /\ UNCHANGED <<poolVars, jobs, consumerRes, svcVars, clientVars, lastRun, callVars>>

\* delivery.ack(..).await; a failed ack is logged and the loop goes on.
ConsumerAck ==
    /\ consumerPc = "acking"
    /\ LET d == Len(deliveries)
       IN deliveries' = [deliveries EXCEPT ![d].acked = @ + 1,
                                           ![d].ackFirst = (deliveries[d].handled = 0)]
    /\ consumerPc' = "waiting"
    /\ UNCHANGED <<mailbox, poolVars, jobs, consumerRes, handlerErrs, svcVars, clientVars, lastRun, callVars>>

\* How start_consuming returns when the stream yields Some(Err(e)) or None.
StreamErrorResult == [result |-> "Err", cause |-> "stream_error"]
StreamEndResult == [result |-> "Ok", cause |-> "stream_end"]

\* consumer.next() yields Some(Err(e)): return Err(e).
ConsumerStreamError ==
    /\ consumerPc = "waiting"
    /\ consumerPc' = "returned"
    /\ consumerRes' = StreamErrorResult
    /\ UNCHANGED <<mailbox, poolVars, jobs, deliveries, handlerErrs, svcVars, clientVars, lastRun, callVars>>

\* consumer.next() yields None: the loop ends and Ok(()) is returned.
ConsumerStreamEnd ==
    /\ consumerPc = "waiting"
    /\ consumerPc' = "returned"
    /\ consumerRes' = StreamEndResult
    /\ UNCHANGED <<mailbox, poolVars, jobs, deliveries, handlerErrs, svcVars, clientVars, lastRun, callVars>>

\* The consumer task is cancelled at an await (setup calls, consumer.next()).
ConsumerAborted ==
    /\ consumerAbortReq
    /\ consumerPc \in {"setup", "waiting"}
    /\ consumerPc' = "aborted"
    /\ UNCHANGED <<mailbox, poolVars, jobs, consumerRes, deliveries, handlerErrs,
                   svcVars, clientVars, lastRun, callVars>>

\* ---------------------------------------------------------- run_service
\* A task of the JoinSet has finished, so that join_next() yields Some.
ServiceTaskEnded == consumerPc = "returned" \/ poolState = "stopped"

\* select!: ctrl_c fires ("signal"), or join_next() yields a service task
\* that ended ("task_ended").
SvcSelect(cause) ==
    /\ svcPc = "running"
    /\ cause = "task_ended" => ServiceTaskEnded
    /\ svcPc' = "shutting_down"
    /\ svcCause' = cause
    /\ UNCHANGED <<mailbox, poolVars, jobs, consumerVars, poolAbortReq,
                   consumerAbortReq, clientVars, lastRun, callVars>>

\* game_pool_sender.send(Shutdown).await: waits for room, Err when closed.
SvcSendShutdown ==
    /\ svcPc = "shutting_down"
    /\ MailboxClosed \/ ~MailboxFull
    /\ mailbox' = IF MailboxClosed THEN mailbox ELSE Append(mailbox, Shutdown)
    /\ svcPc' = "aborting"
    /\ UNCHANGED <<svcCause, poolVars, jobs, consumerVars, poolAbortReq, consumerAbortReq,
                   clientVars, lastRun, callVars>>

\* services.abort_all()
SvcAbortAll ==
    /\ svcPc = "aborting"
    /\ poolAbortReq' = TRUE
    /\ consumerAbortReq' = TRUE
    /\ svcPc' = "joining"
    /\ UNCHANGED <<svcCause, mailbox, poolVars, jobs, consumerVars, clientVars, lastRun, callVars>>

\* Mutant: a single join_next() instead of the loop: one settled task is enough.
ServicesSettled_Any ==
    \/ consumerPc \in {"returned", "aborted"}
    \/ poolState \in {"stopped", "aborted"}

\* join_next() yields None: every task of the JoinSet has finished or has
\* been cancelled.
ServicesSettled ==
    /\ consumerPc \in {"returned", "aborted"}
    /\ poolState \in {"stopped", "aborted"}

\* while services.join_next().await.is_some() {}: both tasks have settled.
SvcJoined ==
    /\ svcPc = "joining"
    /\ ServicesSettled
    /\ svcPc' = "exited"
    /\ UNCHANGED <<svcCause, mailbox, poolVars, jobs, consumerVars, poolAbortReq,
                   consumerAbortReq, clientVars, lastRun, callVars>>

\* main returns and the runtime is dropped: bridging tasks still waiting are
\* dropped with their receivers; blocking threads already started run on.
RuntimeDrop ==
    /\ svcPc = "exited"
    /\ svcPc' = "dropped"
    /\ jobs' = [j \in DOMAIN jobs |->
                  IF jobs[j].bridge = "waiting"
                  THEN [jobs[j] EXCEPT !.bridge = "dropped"]
                  ELSE jobs[j]]
    /\ UNCHANGED <<svcCause, mailbox, poolVars, consumerVars, poolAbortReq, consumerAbortReq,
                   clientVars, lastRun, callVars>>

\* ------------------------------------------------------ QueueClient::new
\* ExchangeDeclareOptions::default(): every flag of the options is false, so
\* the exchange is declared neither passive nor durable nor auto-delete.
ExchangeDeclareOptionsDefault ==
    [passive |-> FALSE, durable |-> FALSE, auto_delete |-> FALSE,
     internal |-> FALSE, nowait |-> FALSE]

\* exchange_declare(topic, ExchangeKind::Topic, options, ..)
ExchangeDeclare(topic, options) ==
    [name |-> topic, kind |-> "topic", durable |-> options.durable]

NoClient == [pc |-> "idle", connection |-> FALSE, channel |-> FALSE,
             exchanges |-> {}, res |-> "none", cause |-> "none"]

\* The client that a successful QueueClient::new returned.
ConnectedClient ==
    [pc |-> "returned", connection |-> TRUE, channel |-> TRUE,
     exchanges |-> {ExchangeDeclare(IncomingTopic, ExchangeDeclareOptionsDefault),
                    ExchangeDeclare(OutgoingTopic, ExchangeDeclareOptionsDefault)},
     res |-> "Ok", cause |-> "none"]

NewFrame ==
    UNCHANGED <<mailbox, poolVars, poolAbortReq, jobs, consumerVars, clientVars,
                svcPc, svcCause, consumerAbortReq, lastRun, oneShot, seating, tool>>

\* A failed step of new returns Err with ?: the connection and channel
\* opened so far are dropped with the locals that held them.
NewFails(cause) ==
    client' = [client EXCEPT !.pc = "returned", !.res = "Err", !.cause = cause,
                             !.connection = FALSE, !.channel = FALSE]

\* Connection::connect(cluster_url, ..)
NewConnect ==
    /\ client.pc = "idle"
    /\ \E ok \in BOOLEAN :
         IF ok
         THEN client' = [client EXCEPT !.pc = "connected", !.connection = TRUE]
         ELSE NewFails("connect")
    /\ NewFrame

\* connection.create_channel()
NewCreateChannel ==
    /\ client.pc = "connected"
    /\ \E ok \in BOOLEAN :
         IF ok
         THEN client' = [client EXCEPT !.pc = "channel", !.channel = TRUE]
         ELSE NewFails("create_channel")
    /\ NewFrame

\* exchange_declare(&incoming_topic, ..)
NewDeclareIncoming ==
    /\ client.pc = "channel"
    /\ \E ok \in BOOLEAN :
         IF ok
         THEN client' = [client EXCEPT
                  !.pc = "incoming_declared",
                  !.exchanges = @ \cup {ExchangeDeclare(IncomingTopic,
                                                        ExchangeDeclareOptionsDefault)}]
         ELSE NewFails("declare_incoming")
    /\ NewFrame

\* exchange_declare(&outgoing_topic, ..) and Ok(Self { inner })
NewDeclareOutgoing ==
    /\ client.pc = "incoming_declared"
    /\ \E ok \in BOOLEAN :
         IF ok
         THEN client' = [client EXCEPT
                  !.pc = "returned", !.res = "Ok",
                  !.exchanges = @ \cup {ExchangeDeclare(OutgoingTopic,
                                                        ExchangeDeclareOptionsDefault)}]
         ELSE NewFails("declare_outgoing")
    /\ NewFrame

\* Only a caller that new gave a client can call the client's methods.
HasClient == client.pc = "returned" /\ client.res = "Ok"

\* ------------------------------------------------- seats of a new game
\* Longest players list of a StartGame message.
MaxPlayers == 4
\* Names a players list may hold; "" is what the handler puts for an entry
\* that is no string.
PlayerNames == {"", "p1", "p2"}

RECURSIVE ListsUpTo(_)
ListsUpTo(n) ==
    IF n = 0 THEN {<<>>}
    ELSE LET shorter == ListsUpTo(n - 1)
         IN shorter \cup {Append(l, x) : l \in {m \in shorter : Len(m) = n - 1},
                                          x \in PlayerNames}

PlayerLists == ListsUpTo(MaxPlayers)

\* (0..4) of start_game and [String; 4] of try_new.
NumSeats == 4
\* unwrap_or_else(|| "AngryDiscardoBot".to_string())
DefaultBot == "AngryDiscardoBot"

\* Mutant: one controller per supplied player, with no filler.
Controllers_NoFiller(players) ==
    [i \in 1..(IF Len(players) < NumSeats THEN Len(players) ELSE NumSeats) |->
        [kind |-> "Embedded", name |-> players[i]]]

\* start_game: (0..4).map(|i| Embedded(players.get(i) or the default bot))
Controllers(players) ==
    [i \in 1..NumSeats |->
        [kind |-> "Embedded",
         name |-> IF i <= Len(players) THEN players[i] ELSE DefaultBot]]

\* impl ToString for GameController
ControllerToString(c) == IF c.kind = "Embedded" THEN c.name ELSE "External"

\* try_new: controller_strings, then try_into::<[String; 4]>(), which fails
\* unless there are exactly 4.
ControllerStrings(controllers) ==
    [i \in 1..Len(controllers) |-> ControllerToString(controllers[i])]

SeatControllers(controllers) ==
    IF Len(controllers) = NumSeats
    THEN [ok |-> TRUE, seats |-> ControllerStrings(controllers)]
    ELSE [ok |-> FALSE, seats |-> <<>>]

NoSeating == [pc |-> "idle", players |-> <<>>, controllers |-> <<>>,
              seat_controllers |-> <<>>]

SeatingFrame ==
    UNCHANGED <<mailbox, poolVars, poolAbortReq, jobs, consumerVars, clientVars,
                svcPc, svcCause, consumerAbortReq, lastRun, oneShot, client, tool>>

\* start_game builds the controllers of the players list it was given.
StartGameControllers ==
    /\ seating.pc = "called"
    /\ seating' = [seating EXCEPT !.pc = "spawned",
                                  !.controllers = Controllers(seating.players)]
    /\ SeatingFrame

\* try_new, in the game's thread: the seat array, or "Expected exactly 4
\* controllers".
TryNewSeats ==
    /\ seating.pc = "spawned"
    /\ LET r == SeatControllers(seating.controllers)
       IN seating' = [seating EXCEPT !.pc = IF r.ok THEN "seated" ELSE "seat_error",
                                     !.seat_controllers = r.seats]
    /\ SeatingFrame

\* GameState::new(settings): the engine takes the settings or refuses them.
TryNewEngine ==
    /\ seating.pc = "seated"
    /\ \E ok \in BOOLEAN :
         seating' = [seating EXCEPT !.pc = IF ok THEN "constructed" ELSE "engine_error"]
    /\ SeatingFrame

\* --------------------------------------------- QueueClient::consume_one
\* A user of the client calls publish_game_complete(routing_key, data).
DirectPublish == [type |-> "direct", match_id |-> "", job |-> 0]

ClientPublishComplete(k, id) ==
    /\ Len(attempts) < MaxPublishes
    /\ \E ok \in BOOLEAN :
         LET a == PublishGameComplete(k, CreateGameCompleteMessage(id), ok, DirectPublish)
         IN /\ attempts' = Append(attempts, a)
            /\ oneShot' = Route(oneShot, a, Len(attempts) + 1)
    /\ UNCHANGED <<mailbox, poolState, poolAbortReq, active_games, jobs, lastMsg, inFlight,
                   consumerVars, clientVars, svcVars, lastRun, seating, client, tool>>

ConsumeOneFrame ==
    UNCHANGED <<mailbox, poolVars, poolAbortReq, jobs, consumerVars, clientVars,
                svcPc, svcCause, consumerAbortReq, lastRun, seating, client, tool>>

ConsumeOneFails(cause) ==
    oneShot' = [oneShot EXCEPT !.pc = "returned",
                               !.result = [res |-> "Err", data |-> cause, key |-> "", idx |-> 0]]

\* consume_one(topic, routing_key): queue_declare of an exclusive,
\* auto-delete queue with a name the broker picks.
ConsumeOneDeclare(k) ==
    /\ oneShot.pc = "idle"
    /\ \E ok \in BOOLEAN :
         IF ok
         THEN oneShot' = [oneShot EXCEPT !.pc = "declared", !.topic = OutgoingTopic,
                                         !.key = k, !.calledAt = Len(attempts)]
         ELSE oneShot' = [oneShot EXCEPT !.pc = "returned", !.topic = OutgoingTopic,
                                         !.key = k, !.calledAt = Len(attempts),
                                         !.result = [res |-> "Err", data |-> "declare",
                                                     key |-> "", idx |-> 0]]
    /\ ConsumeOneFrame

\* queue_bind(queue, topic, routing_key)
ConsumeOneBind ==
    /\ oneShot.pc = "declared"
    /\ \E ok \in BOOLEAN :
         IF ok
         THEN oneShot' = [oneShot EXCEPT !.pc = "bound", !.boundAt = Len(attempts)]
         ELSE ConsumeOneFails("bind")
    /\ ConsumeOneFrame

\* basic_consume(queue, "one_shot_consumer")
ConsumeOneConsume ==
    /\ oneShot.pc = "bound"
    /\ \E ok \in BOOLEAN :
         IF ok
         THEN oneShot' = [oneShot EXCEPT !.pc = "consuming"]
         ELSE ConsumeOneFails("consume")
    /\ ConsumeOneFrame

\* consumer_stream.next().await yields the first delivery of the queue.
ConsumeOneNext ==
    /\ oneShot.pc = "consuming"
    /\ oneShot.queue # <<>>
    /\ oneShot' = [oneShot EXCEPT !.pc = "acking"]
    /\ ConsumeOneFrame

\* consumer_stream.next().await yields Some(Err(e)) (returned with ?) or
\* None ("No message received").
ConsumeOneStreamStops ==
    /\ oneShot.pc = "consuming"
    /\ \E cause \in {"stream_error", "no_message"} : ConsumeOneFails(cause)
    /\ ConsumeOneFrame

\* delivery.ack(..).await? and return Ok(delivery.data)
ConsumeOneAck ==
    /\ oneShot.pc = "acking"
    /\ \E ok \in BOOLEAN :
         IF ok
         THEN oneShot' = [oneShot EXCEPT !.pc = "returned", !.acked = @ + 1,
                                         !.queue = Tail(@),
                                         !.result = [res |-> "Ok",
                                                     data |-> Head(oneShot.queue).data,
                                                     key |-> Head(oneShot.queue).key,
                                                     idx |-> Head(oneShot.queue).idx]]
         ELSE ConsumeOneFails("ack")
    /\ ConsumeOneFrame

\* ------------------------------------------------- run_tools QueueMatch
NoTool == [pc |-> "idle", match_id |-> "", pending |-> FALSE, startOk |-> FALSE]

ToolFrame ==
    UNCHANGED <<mailbox, poolVars, poolAbortReq, jobs, consumerVars, clientVars,
                svcPc, svcCause, consumerAbortReq, lastRun, oneShot, seating, client>>

\* The tool picks its match id and spawns the task that calls
\* consume_one(outgoing topic, match_id); the task runs when the runtime
\* polls it.
ToolSpawnConsume(id) ==
    /\ tool.pc = "idle"
    /\ tool' = [tool EXCEPT !.pc = "spawned", !.match_id = id]
    /\ ToolFrame

\* The spawned task calls consume_one.
ToolConsumeOne == tool.pc # "idle" /\ ConsumeOneDeclare(tool.match_id)

\* publish_game_starting(&data): the start event goes to the incoming
\* topic, where the service's queue is bound with "#"; an Err is logged.
\* Then the tool waits on result_handle.
ToolPublishStarting ==
    /\ tool.pc = "spawned"
    /\ \E ok \in BOOLEAN :
         tool' = [tool EXCEPT !.pc = "awaiting", !.pending = ok, !.startOk = ok]
    /\ ToolFrame

\* The service's consumer gets the tool's start event from its queue.
ConsumerNextFromTool ==
    /\ consumerPc = "waiting"
    /\ tool.pending
    /\ deliveries' = Append(deliveries,
                            [payload |-> tool.match_id, handled |-> 0, acked |-> 0,
                             handlerOk |-> FALSE, ackFirst |-> FALSE,
                             sendRes |-> "none"])
    /\ consumerPc' = "handling"
    /\ tool' = [tool EXCEPT !.pending = FALSE]
    /\ UNCHANGED <<mailbox, poolVars, jobs, consumerRes, handlerErrs, svcVars, clientVars,
                   lastRun, oneShot, seating, client>>

\* result_handle.await: the spawned task has returned (it logged the result
\* or the error of consume_one).
ToolJoin ==
    /\ tool.pc = "awaiting"
    /\ oneShot.pc = "returned"
    /\ tool' = [tool EXCEPT !.pc = "done"]
    /\ ToolFrame

\* -------------------------------------------------------- specification
Init ==
    /\ mailbox = <<>>
    /\ poolState = "running"
    /\ poolAbortReq = FALSE
    /\ active_games = {}
    /\ jobs = <<>>
    /\ attempts = <<>>
    /\ lastMsg = NoMsg
    /\ inFlight = NoMsg
    /\ consumerPc = "setup"
    /\ consumerRes = NoResult
    /\ consumerAbortReq = FALSE
    /\ deliveries = <<>>
    /\ handlerErrs = 0
    /\ finishSent = 0
    /\ clientHolds = TRUE
    /\ lastRun = NoRun
    /\ svcPc = "running"
    /\ svcCause = "none"
    /\ oneShot = NoOneShot
    /\ seating = NoSeating
    /\ client = ConnectedClient
    /\ tool = NoTool

Next ==
    \/ PoolStartGame
    \/ PoolGameFinished
    \/ PoolGameComplete
    \/ PoolGameError
    \/ PoolCompletionReturns
    \/ PoolShutdown
    \/ PoolRecvIdle
    \/ PoolAborted
    \/ \E j \in 1..MaxDeliveries : WorkerStart(j)
    \/ \E j \in 1..MaxDeliveries : WorkerAdvance(j)
    \/ \E j \in 1..MaxDeliveries : WorkerCancelled(j)
    \/ \E j \in 1..MaxDeliveries : BridgeForward(j)
    \/ \E j \in 1..MaxDeliveries : BridgeEnd(j)
    \/ \E id \in MatchIds : SendGameFinished(id)
    \/ ConsumerSetup
    \/ ConsumerNext
    \/ ConsumerHandle
    \/ ConsumerAck
    \/ ConsumerStreamError
    \/ ConsumerStreamEnd
    \/ ConsumerAborted
    \/ \E cause \in {"signal", "task_ended"} : SvcSelect(cause)
    \/ SvcSendShutdown
    \/ SvcAbortAll
    \/ SvcJoined
    \/ RuntimeDrop

Spec == Init /\ [][Next]_vars

\* A QueueClient used on its own, as run_tools and the integration tests
\* use it: publishes of job-complete events and one consume_one; there is
\* no pool, no consumer and no run_service.
ClientInit ==
    /\ mailbox = <<>>
    /\ poolState = "absent"
    /\ poolAbortReq = FALSE
    /\ active_games = {}
    /\ jobs = <<>>
    /\ attempts = <<>>
    /\ lastMsg = NoMsg
    /\ inFlight = NoMsg
    /\ consumerPc = "absent"
    /\ consumerRes = NoResult
    /\ consumerAbortReq = FALSE
    /\ deliveries = <<>>
    /\ handlerErrs = 0
    /\ finishSent = 0
    /\ clientHolds = FALSE
    /\ lastRun = NoRun
    /\ svcPc = "absent"
    /\ svcCause = "none"
    /\ oneShot = NoOneShot
    /\ seating = NoSeating
    /\ client = ConnectedClient
    /\ tool = NoTool

RoundTripNext ==
    \/ \E k \in Keys, id \in MatchIds : ClientPublishComplete(k, id)
    \/ \E k \in Keys : ConsumeOneDeclare(k)
    \/ ConsumeOneBind
    \/ ConsumeOneConsume
    \/ ConsumeOneNext
    \/ ConsumeOneStreamStops
    \/ ConsumeOneAck

RoundTripSpec == ClientInit /\ [][RoundTripNext]_vars

\* QueueClient::new, and then the use of the client it returned.
ConnectInit ==
    /\ mailbox = <<>>
    /\ poolState = "absent"
    /\ poolAbortReq = FALSE
    /\ active_games = {}
    /\ jobs = <<>>
    /\ attempts = <<>>
    /\ lastMsg = NoMsg
    /\ inFlight = NoMsg
    /\ consumerPc = "absent"
    /\ consumerRes = NoResult
    /\ consumerAbortReq = FALSE
    /\ deliveries = <<>>
    /\ handlerErrs = 0
    /\ finishSent = 0
    /\ clientHolds = FALSE
    /\ lastRun = NoRun
    /\ svcPc = "absent"
    /\ svcCause = "none"
    /\ oneShot = NoOneShot
    /\ seating = NoSeating
    /\ client = NoClient
    /\ tool = NoTool

ConnectNext ==
    \/ NewConnect
    \/ NewCreateChannel
    \/ NewDeclareIncoming
    \/ NewDeclareOutgoing
    \/ HasClient /\ RoundTripNext

ConnectSpec == ConnectInit /\ [][ConnectNext]_vars

\* One start_game call for each players list a StartGame message can carry.
SeatingInit ==
    /\ mailbox = <<>>
    /\ poolState = "absent"
    /\ poolAbortReq = FALSE
    /\ active_games = {}
    /\ jobs = <<>>
    /\ attempts = <<>>
    /\ lastMsg = NoMsg
    /\ inFlight = NoMsg
    /\ consumerPc = "absent"
    /\ consumerRes = NoResult
    /\ consumerAbortReq = FALSE
    /\ deliveries = <<>>
    /\ handlerErrs = 0
    /\ finishSent = 0
    /\ clientHolds = FALSE
    /\ lastRun = NoRun
    /\ svcPc = "absent"
    /\ svcCause = "none"
    /\ oneShot = NoOneShot
    /\ \E players \in PlayerLists :
         seating = [NoSeating EXCEPT !.pc = "called", !.players = players]
    /\ client = ConnectedClient
    /\ tool = NoTool

SeatingNext ==
    \/ StartGameControllers
    \/ TryNewSeats
    \/ TryNewEngine

SeatingSpec == SeatingInit /\ [][SeatingNext]_vars

\* A GamePool used through its API alone: GamePool::new, one Sender from
\* sender() in the hands of a client, and run(); there is no consumer and no
\* run_service, and nobody sends Shutdown.
ApiInit ==
    /\ mailbox = <<>>
    /\ poolState = "running"
    /\ poolAbortReq = FALSE
    /\ active_games = {}
    /\ jobs = <<>>
    /\ attempts = <<>>
    /\ lastMsg = NoMsg
    /\ inFlight = NoMsg
    /\ consumerPc = "absent"
    /\ consumerRes = NoResult
    /\ consumerAbortReq = FALSE
    /\ deliveries = <<>>
    /\ handlerErrs = 0
    /\ finishSent = 0
    /\ clientHolds = TRUE
    /\ lastRun = NoRun
    /\ svcPc = "absent"
    /\ svcCause = "none"
    /\ oneShot = NoOneShot
    /\ seating = NoSeating
    /\ client = ConnectedClient
    /\ tool = NoTool

PoolLoopStep ==
    \/ PoolStartGame
    \/ PoolGameFinished
    \/ PoolGameComplete
    \/ PoolGameError
    \/ PoolCompletionReturns
    \/ PoolRecvIdle

PoolApiNext ==
    \/ PoolLoopStep
    \/ \E j \in 1..MaxDeliveries : WorkerStart(j)
    \/ \E j \in 1..MaxDeliveries : WorkerAdvance(j)
    \/ \E j \in 1..MaxDeliveries : WorkerCancelled(j)
    \/ \E j \in 1..MaxDeliveries : BridgeForward(j)
    \/ \E j \in 1..MaxDeliveries : BridgeEnd(j)
    \/ \E id \in MatchIds : ClientStartGame(id)
    \/ \E id \in MatchIds : SendGameFinished(id)
    \/ ClientDropsSender

PoolApiSpec == ApiInit /\ [][PoolApiNext]_vars

\* The pool, its workers and bridging tasks, the senders of its mailbox, and
\* the consumer that feeds it; no task is aborted.
PoolNext ==
    \/ PoolStartGame
    \/ PoolGameFinished
    \/ PoolGameComplete
    \/ PoolGameError
    \/ PoolCompletionReturns
    \/ PoolShutdown
    \/ PoolRecvIdle
    \/ \E j \in 1..MaxDeliveries : WorkerStart(j)
    \/ \E j \in 1..MaxDeliveries : WorkerAdvance(j)
    \/ \E j \in 1..MaxDeliveries : WorkerCancelled(j)
    \/ \E j \in 1..MaxDeliveries : BridgeForward(j)
    \/ \E j \in 1..MaxDeliveries : BridgeEnd(j)
    \/ \E id \in MatchIds : SendGameFinished(id)
    \/ ConsumerSetup
    \/ ConsumerNext
    \/ ConsumerHandle
    \/ ConsumerAck
    \/ \E cause \in {"signal", "task_ended"} : SvcSelect(cause)
    \/ SvcSendShutdown

PoolSpec == Init /\ [][PoolNext]_vars

\* The scheduler runs every ready task and every started thread: the pool
\* loop takes the next message, a bridging task forwards its status.
PoolFairSpec ==
    /\ PoolSpec
    /\ WF_vars(PoolStartGame \/ PoolGameFinished \/ PoolGameComplete
               \/ PoolGameError \/ PoolCompletionReturns \/ PoolShutdown)
    /\ \A j \in 1..MaxDeliveries : WF_vars(BridgeForward(j))

\* The runners with what the engine answers them observed: the consumer and
\* the StartGame arm start the jobs, the service shuts down and the runtime
\* is dropped under runners still at work. A runner touches nothing but its
\* own GameMatch and status_tx.
RunnerNext ==
    \/ ConsumerSetup
    \/ ConsumerNext
    \/ ConsumerHandle
    \/ ConsumerAck
    \/ ConsumerAborted
    \/ PoolStartGame
    \/ PoolShutdown
    \/ PoolAborted
    \/ \E j \in 1..MaxDeliveries : ObservedWorkerStart(j)
    \/ \E j \in 1..MaxDeliveries : ObservedWorkerAdvance(j)
    \/ \E j \in 1..MaxDeliveries : WorkerCancelled(j)
    \/ \E cause \in {"signal", "task_ended"} : SvcSelect(cause)
    \/ SvcSendShutdown
    \/ SvcAbortAll
    \/ SvcJoined
    \/ RuntimeDrop

RunnerSpec == Init /\ [][RunnerNext]_vars

\* run_service from start to return: the consumer, the pool loop with the
\* jobs it starts and their bridging tasks, and the shutdown sequence.
ServiceNext ==
    \/ ConsumerSetup
    \/ ConsumerNext
    \/ ConsumerHandle
    \/ ConsumerAck
    \/ ConsumerStreamError
    \/ ConsumerStreamEnd
    \/ ConsumerAborted
    \/ PoolStartGame
    \/ PoolGameComplete
    \/ PoolGameError
    \/ PoolCompletionReturns
    \/ PoolShutdown
    \/ PoolRecvIdle
    \/ PoolAborted
    \/ \E j \in 1..MaxDeliveries : WorkerStart(j)
    \/ \E j \in 1..MaxDeliveries : WorkerAdvance(j)
    \/ \E j \in 1..MaxDeliveries : WorkerCancelled(j)
    \/ \E j \in 1..MaxDeliveries : BridgeForward(j)
    \/ \E j \in 1..MaxDeliveries : BridgeEnd(j)
    \/ \E cause \in {"signal", "task_ended"} : SvcSelect(cause)
    \/ SvcSendShutdown
    \/ SvcAbortAll
    \/ SvcJoined

ServiceSpec == Init /\ [][ServiceNext]_vars

\* The runtime polls every ready task: run_service goes on, the pool loop
\* takes its next step or is cancelled at its await, the consumer finishes
\* the delivery in hand or is cancelled at its await.
ServiceFairSpec ==
    /\ ServiceSpec
    /\ WF_vars(SvcSelect("task_ended"))
    /\ WF_vars(SvcSendShutdown)
    /\ WF_vars(SvcAbortAll)
    /\ WF_vars(SvcJoined)
    /\ WF_vars(PoolStartGame \/ PoolGameComplete \/ PoolGameError
               \/ PoolCompletionReturns \/ PoolShutdown \/ PoolAborted)
    /\ WF_vars(ConsumerHandle \/ ConsumerAck \/ ConsumerAborted)

\* The flow of a start event while the service runs: the consumer takes a
\* burst of deliveries, the pool starts the jobs, the runners report, the
\* bridging tasks forward and the pool publishes. Nothing sends GameFinished
\* or Shutdown, and the stream does not end.
FlowNext ==
    \/ ConsumerSetup
    \/ ConsumerNextBurst
    \/ ConsumerHandle
    \/ ConsumerAck
    \/ PoolStartGame
    \/ PoolGameComplete
    \/ PoolGameError
    \/ PoolCompletionReturns
    \/ \E j \in 1..MaxBurst : WorkerStart(j)
    \/ \E j \in 1..MaxBurst : WorkerAdvance(j)
    \/ \E j \in 1..MaxBurst : BridgeForward(j)

FlowSpec == Init /\ [][FlowNext]_vars

\* The runtime polls the pool loop and the bridging tasks whenever they are
\* ready, every spawned blocking thread gets to run, and the engine run
\* terminates.
FlowFairSpec ==
    /\ FlowSpec
    /\ WF_vars(PoolStartGame \/ PoolGameComplete \/ PoolGameError
               \/ PoolCompletionReturns)
    /\ \A j \in 1..MaxBurst : WF_vars(WorkerStart(j))
    /\ \A j \in 1..MaxBurst : WF_vars(WorkerAdvance(j))
    /\ \A j \in 1..MaxBurst : WF_vars(BridgeForward(j))

\* The submit-and-wait tool next to a running service: the tool's consume
\* task and its publish of the start event, the service's consumer, pool,
\* runner and bridging task, and the broker between them.
ToolNext ==
    \/ \E id \in MatchIds : ToolSpawnConsume(id)
    \/ ToolConsumeOne
    \/ ConsumeOneBind
    \/ ConsumeOneConsume
    \/ ConsumeOneNext
    \/ ConsumeOneStreamStops
    \/ ConsumeOneAck
    \/ ToolPublishStarting
    \/ ToolJoin
    \/ ConsumerSetup
    \/ ConsumerNextFromTool
    \/ ConsumerHandle
    \/ ConsumerAck
    \/ PoolStartGame
    \/ PoolGameComplete
    \/ PoolGameError
    \/ PoolCompletionReturns
    \/ \E j \in 1..MaxDeliveries : WorkerStart(j)
    \/ \E j \in 1..MaxDeliveries : WorkerAdvance(j)
    \/ \E j \in 1..MaxDeliveries : BridgeForward(j)

ToolSpec == Init /\ [][ToolNext]_vars

\* The consumer loop with the service that aborts it and the pool arms that
\* drain what the handler enqueues.
ConsumerSpecNext ==
    \/ ConsumerSetup
    \/ ConsumerNext
    \/ ConsumerHandle
    \/ ConsumerAck
    \/ ConsumerStreamError
    \/ ConsumerStreamEnd
    \/ ConsumerAborted
    \/ PoolStartGame
    \/ PoolShutdown
    \/ PoolAborted
    \/ \E cause \in {"signal", "task_ended"} : SvcSelect(cause)
    \/ SvcSendShutdown
    \/ SvcAbortAll
    \/ SvcJoined

ConsumerSpec == Init /\ [][ConsumerSpecNext]_vars

\* ============================================================== claims
JobIds == 1..MaxDeliveries
\* The publish attempts made for the completion message of job j.
CompletionsOf(j) == SelectSeq(attempts, LAMBDA a : a.job = j)
PoolMsgTypes == {"GameFinished", "GameComplete", "GameError"}

\* The runner of job j reported Finished to its bridging task.
ReachedFinished(j) ==
    j \in DOMAIN jobs /\ jobs[j].sent = "Finished" /\ jobs[j].sendOk

\* Exactly one message for job j is on the outgoing topic, keyed by its id.
PublishedOnce(j) ==
    /\ j \in DOMAIN jobs
    /\ Len(SelectSeq(Published, LAMBDA a : a.job = j)) = 1
    /\ \A i \in DOMAIN attempts :
         attempts[i].job = j =>
            /\ attempts[i].topic = OutgoingTopic
            /\ attempts[i].key = jobs[j].id
            /\ attempts[i].payload = [match_id |-> jobs[j].id, status |-> "completed"]

\* C1 (as claimed): every accepted StartJob whose engine run reaches Finished
\* leads to exactly one message on the outgoing topic for it.
C1_FinishedLeadsToPublished ==
    \A j \in JobIds : ReachedFinished(j) ~> PublishedOnce(j)

\* C1 (amended): a job whose run reached Finished has at most one publish
\* attempt, made while RunnerComplete{id} is processed, to the outgoing topic
\* with key id and payload {match_id: id, status: "completed"}; right after
\* that message is processed the table holds no entry for id; and unless the
\* pool has left its loop, RunnerComplete{id} is eventually processed, with
\* one message on the topic when the broker accepted the publish.
C1_Safety ==
    \A j \in DOMAIN jobs :
        /\ Len(CompletionsOf(j)) <= 1
        /\ jobs[j].sent = "Finished" =>
             \A i \in DOMAIN attempts :
                attempts[i].job = j =>
                   /\ attempts[i].cause = "GameComplete"
                   /\ attempts[i].topic = OutgoingTopic
                   /\ attempts[i].key = jobs[j].id
                   /\ attempts[i].payload =
                         [match_id |-> jobs[j].id, status |-> "completed"]
        /\ (lastMsg.type = "GameComplete" /\ lastMsg.job = j
            /\ lastMsg.publish # "cancelled")
              => /\ jobs[j].sent = "Finished"
                 /\ lastMsg.match_id = jobs[j].id
                 /\ jobs[j].id \notin Ids(active_games)
                 /\ Len(CompletionsOf(j)) = 1
                 /\ lastMsg.publish = "ok" => PublishedOnce(j)

C1_Processed(j) ==
    /\ Len(CompletionsOf(j)) = 1
    /\ CompletionsOf(j)[1].ok => PublishedOnce(j)

C1_FinishedLeadsToProcessed ==
    /\ []C1_Safety
    /\ \A j \in JobIds :
         ReachedFinished(j) ~> (C1_Processed(j) \/ poolState # "running")

\* The scenario: a job ran to Finished, its RunnerComplete was processed, the
\* event is on the topic once and the table no longer holds its id.
C1_Witness ==
    /\ lastMsg.type = "GameComplete"
    /\ lastMsg.publish = "ok"
    /\ lastMsg.hadEntry
    /\ PublishedOnce(lastMsg.job)
    /\ lastMsg.match_id \notin Ids(active_games)

\* C2: the active table holds at most one entry per id in every reachable
\* state, and holds no entry for id right after ExternalFinish{id},
\* RunnerComplete{id} or RunnerError{id} has been processed (the table only
\* changes when the pool processes a message).
C2_AtMostOneEntryAndNoneAfterTerminal ==
    /\ \A id \in Ids(active_games) : Cardinality(EntriesFor(active_games, id)) <= 1
    /\ (lastMsg.type \in PoolMsgTypes /\ lastMsg.publish # "cancelled")
          => lastMsg.match_id \notin Ids(active_games)

\* A job was started twice under one id, and a terminal message for that id
\* has removed the entry that was there.
C2_Witness ==
    /\ lastMsg.type = "GameError"
    /\ lastMsg.hadEntry
    /\ \E j, k \in DOMAIN jobs : j # k /\ jobs[j].id = jobs[k].id

\* C3 (as claimed): processing RunnerComplete{id} or ExternalFinish{id} for
\* an id that is not in the active table has no effect: nothing is published.
C3_UnknownIdIsNoOp ==
    (lastMsg.type \in {"GameComplete", "GameFinished"} /\ ~lastMsg.hadEntry)
        => lastMsg.publish = "none"

\* C4: processing Shutdown requests cancellation of every handle in the
\* active table, empties the table and ends the loop; from then on no mailbox
\* message is taken or accepted and no completion event is published.
C4_ShutdownStep ==
    (PoolTakes("Shutdown") /\ mailbox' = Tail(mailbox))
        => /\ \A e \in active_games : jobs'[e.handle].aborted
           /\ active_games' = {}
           /\ poolState' = "stopped"

C4_StoppedIsFinal ==
    (poolState = "stopped")
        => /\ poolState' = "stopped"
           /\ mailbox' = mailbox
           /\ active_games' = active_games
           /\ attempts' = attempts
           /\ lastMsg' = lastMsg

C4_ShutdownDrains ==
    /\ [](poolState = "stopped" => (active_games = {} /\ lastMsg.type = "Shutdown"))
    /\ [][C4_ShutdownStep]_vars
    /\ [][C4_StoppedIsFinal]_vars

\* Shutdown was processed while a job was tracked and another message was
\* still queued behind it.
C4_Witness ==
    /\ poolState = "stopped"
    /\ mailbox # <<>>
    /\ \E j \in DOMAIN jobs : jobs[j].aborted /\ jobs[j].worker = "running"

\* C5: a runner sends its terminal status exactly once on every path: none
\* before it returns, one (Finished or Error) once it has returned, never
\* two; a construction failure is sent as Error; and when the receiver is
\* gone the failed send is swallowed and the runner has still returned.
C5_ExactlyOneStatus ==
    /\ \A j \in DOMAIN jobs :
         LET job == jobs[j]
         IN /\ job.sends <= 1
            /\ job.worker = "returned" <=> job.sends = 1
            /\ job.sends = 1 => job.sent \in {"Finished", "Error"}
            /\ job.sends = 0 => (job.sent = "none" /\ job.chan = "empty")
            /\ (job.sends = 1 /\ ~job.sendOk) => job.worker = "returned"
            /\ job.chan \in {"Finished", "Error"} => job.chan = job.sent
    /\ (lastRun.step = "construct_failed" /\ lastRun.job \in DOMAIN jobs)
          => /\ jobs[lastRun.job].sent = "Error"
             /\ jobs[lastRun.job].sends = 1
             /\ jobs[lastRun.job].worker = "returned"

\* A runner finished after its receiver had been dropped: the send failed
\* and the runner returned.
C5_Witness ==
    \E j \in DOMAIN jobs :
        /\ jobs[j].sends = 1
        /\ ~jobs[j].sendOk
        /\ jobs[j].bridge = "dropped"
        /\ jobs[j].worker = "returned"

\* C6: an advance that fails with the "already ended" error and an advance
\* whose new state is observed at GameEnd both end the job with status
\* Finished; any other advance failure ends it with status Error; a
\* Continuing result leaves the runner in its loop, about to call advance again.
C6_TerminalDetection ==
    lastRun.job \in DOMAIN jobs =>
        LET job == jobs[lastRun.job]
            ended == job.worker = "returned" /\ job.sends = 1
        IN /\ lastRun.step = "GameEnded" => (ended /\ job.sent = "Finished")
           /\ (lastRun.step = "ok" /\ lastRun.observed = "GameEnd")
                 => (ended /\ job.sent = "Finished")
           /\ lastRun.step = "error" => (ended /\ job.sent = "Error")
           /\ (lastRun.step = "ok" /\ lastRun.observed = "none")
                 => (ended /\ job.sent = "Error")
           /\ (lastRun.step = "ok" /\ lastRun.observed = "Playing")
                 => (job.worker = "running" /\ job.sends = 0
                     /\ job.advances = lastRun.calls)

\* A runner looped once and then ended on the "already ended" error.
C6_Witness ==
    /\ lastRun.step = "GameEnded"
    /\ lastRun.calls = 2
    /\ jobs[lastRun.job].sent = "Finished"

\* A runner looped once and then ended on a snapshot at GameEnd.
C6_WitnessSnapshot ==
    /\ lastRun.step = "ok" /\ lastRun.observed = "GameEnd"
    /\ lastRun.calls = 2
    /\ jobs[lastRun.job].sent = "Finished"

\* C7: every publish the pool makes goes to the outgoing topic with routing
\* key equal to the id of the RunnerComplete or RunnerError message being
\* processed and payload {match_id: that id, status: "completed"}, for
\* RunnerError as for RunnerComplete.
C7_PublishedShape ==
    /\ \A i \in DOMAIN attempts :
         LET a == attempts[i]
         IN /\ a.topic = OutgoingTopic
            /\ a.cause \in {"GameComplete", "GameError"}
            /\ a.job \in DOMAIN jobs
            /\ a.key = jobs[a.job].id
            /\ a.payload = [match_id |-> jobs[a.job].id, status |-> "completed"]
    /\ lastMsg.publish \in {"ok", "failed"}
          => /\ attempts # <<>>
             /\ attempts[Len(attempts)].key = lastMsg.match_id
             /\ attempts[Len(attempts)].cause = lastMsg.type
             /\ attempts[Len(attempts)].payload.match_id = lastMsg.match_id

\* A completion event was published for a RunnerError.
C7_Witness ==
    \E i \in DOMAIN attempts : attempts[i].ok /\ attempts[i].cause = "GameError"

\* C8: when the publish fails while RunnerComplete{id} or RunnerError{id} is
\* processed, the entry for id is still removed, exactly one publish was
\* attempted for that message, and the loop is still running.
C8_PublishFailure ==
    lastMsg.publish = "failed"
        => /\ lastMsg.match_id \notin Ids(active_games)
           /\ Len(CompletionsOf(lastMsg.job)) = 1
           /\ poolState = "running"

\* The publish failed for a job that was in the table.
C8_Witness ==
    /\ lastMsg.publish = "failed"
    /\ lastMsg.hadEntry
    /\ lastMsg.type = "GameError"

C10_ReturnsFailure ==
    (consumerPc = "returned" /\ consumerRes.cause \in {"stream_error", "stream_end"})
        => consumerRes.result = "Err"

\* C10 (amended): once consuming, start_consuming returns only when the
\* stream fails, and then with that failure, or when the stream ends, and
\* then with Ok(()); a handler error never ends the consumption: after any
\* number of them the loop is still in its body or waiting for a delivery,
\* unless the stream stopped it or the task was aborted.
C10_StopsOnlyOnStream ==
    /\ consumerPc = "returned"
          => \/ consumerRes = [result |-> "Err", cause |-> "stream_error"]
             \/ consumerRes = [result |-> "Ok", cause |-> "stream_end"]
             \/ (consumerRes = [result |-> "Err", cause |-> "setup"]
                 /\ deliveries = <<>>)
    /\ consumerPc # "returned" => consumerRes = NoResult
    /\ (handlerErrs > 0 /\ consumerPc = "returned")
          => consumerRes.cause \in {"stream_error", "stream_end"}
    /\ handlerErrs = Cardinality({d \in DOMAIN deliveries :
                                    deliveries[d].handled = 1 /\ ~deliveries[d].handlerOk})

\* After a handler error a later delivery was handled and acknowledged.
C10_Witness ==
    /\ Len(deliveries) = 2
    /\ ~deliveries[1].handlerOk
    /\ deliveries[2].handled = 1
    /\ deliveries[2].acked = 1
    /\ consumerPc = "returned"
    /\ consumerRes.cause = "stream_end"

\* C11 (as claimed): a delivery whose payload does not decode to
\* {match_id: string, players: string[]} makes the handler enqueue no
\* StartJob, and it is still acknowledged.
WellShaped(payload) == payload \in MatchIds

C11_UndecodableStartsNothing ==
    \A d \in DOMAIN deliveries :
        (deliveries[d].handled = 1 /\ ~WellShaped(deliveries[d].payload))
            => /\ deliveries[d].sendRes # "Ok"
               /\ consumerPc = "waiting" => deliveries[d].acked = 1

\* C12: the mailbox never holds more than its capacity; a StartGame the
\* handler submits while the mailbox is full is answered Full at once, the
\* handler returns Ok and the consumer goes on to acknowledge (the handler
\* step is never blocked); the rejected StartGame is dropped: the StartGame
\* messages queued or already processed are exactly the accepted ones, in
\* the order they were accepted.
AcceptedStarts ==
    SelectSeq(deliveries, LAMBDA x : x.sendRes = "Ok")
C12_BoundedMailbox ==
    /\ Len(mailbox) <= MailboxCap
    /\ consumerPc = "handling" => ENABLED ConsumerHandle
    /\ \A d \in DOMAIN deliveries :
         deliveries[d].sendRes = "Full"
            => /\ deliveries[d].handled = 1
               /\ deliveries[d].handlerOk
               /\ d = Len(deliveries) => consumerPc # "handling"
    /\ Len(jobs) + Len(QueuedStarts) = Len(AcceptedStarts)
    /\ \A j \in DOMAIN jobs :
         jobs[j].id = FromSlice(AcceptedStarts[j].payload).match_id
    /\ \A k \in DOMAIN QueuedStarts :
         QueuedStarts[k].match_id
            = FromSlice(AcceptedStarts[Len(jobs) + k].payload).match_id

\* A StartGame was rejected by a full mailbox, its delivery was acknowledged,
\* and the pool has since emptied the mailbox without starting a job for it.
C12_Witness ==
    /\ \E d \in DOMAIN deliveries :
          deliveries[d].sendRes = "Full" /\ deliveries[d].acked = 1
    /\ mailbox = <<>>
    /\ Len(jobs) < Len(deliveries)
    /\ lastMsg.type # "none"

\* C13 (as claimed): once every Sender held outside the pool is dropped and
\* no bridging task remains, the pool loop ends on its own: it is never left
\* in its loop with no step to take.
C13_ClosedMailboxEndsLoop ==
    (OutsideSenders = {} /\ BridgeSenders = {})
        => (poolState # "running" \/ ENABLED <<PoolLoopStep>>_vars)

\* C14: the pool leaves "running" only in the step that processes Shutdown
\* (or when recv() yields None); a step that processes StartGame,
\* GameFinished, GameComplete or GameError, with the publish failed or not,
\* leaves it running; and the Shutdown step itself puts the pool in
\* "stopped" with every worker thread left in the state it was in: a worker
\* still running is not waited for.
PoolProcesses == mailbox # <<>> /\ mailbox' = Tail(mailbox)

C14_LeaveStep ==
    (poolState = "running" /\ poolState' # "running")
        => \/ PoolTakes("Shutdown") /\ PoolProcesses /\ poolState' = "stopped"
           \/ RecvNone

C14_ArmStep ==
    (poolState = "running" /\ PoolProcesses /\ Head(mailbox).type # "Shutdown")
        => poolState' = "running"

C14_StopStep ==
    (PoolTakes("Shutdown") /\ PoolProcesses)
        => /\ poolState' = "stopped"
           /\ DOMAIN jobs' = DOMAIN jobs
           /\ \A j \in DOMAIN jobs : jobs'[j].worker = jobs[j].worker

C14_OnlyShutdownStops ==
    /\ [](poolState = "running" <=> lastMsg.type # "Shutdown")
    /\ [](lastMsg.publish = "failed" => poolState = "running")
    /\ [][C14_LeaveStep]_vars
    /\ [][C14_ArmStep]_vars
    /\ [][C14_StopStep]_vars

\* After a publish had failed the loop went on to process Shutdown, and it
\* stopped while an aborted worker thread was still running.
C14_Witness ==
    /\ poolState = "stopped"
    /\ \E i \in DOMAIN attempts : ~attempts[i].ok
    /\ \E j \in DOMAIN jobs : jobs[j].aborted /\ jobs[j].worker = "running"

\* C15: the step that processes StartGame{id}, GameFinished{id},
\* GameComplete{id} or GameError{id} leaves the table entries of every other
\* id as they were (none removed, none added, none replaced) and leaves the
\* jobs behind them untouched (none aborted), whether or not the publish
\* of that step succeeded.
OtherEntries(table, id) == {e \in table : e.id # id}

C15_Frame(id) ==
    /\ OtherEntries(active_games', id) = OtherEntries(active_games, id)
    /\ \A e \in OtherEntries(active_games, id) : jobs'[e.handle] = jobs[e.handle]

C15_FrameStep ==
    /\ (poolState = "running" /\ PoolProcesses /\ Head(mailbox).type # "Shutdown")
          => C15_Frame(Head(mailbox).match_id)
    /\ (inFlight # NoMsg /\ inFlight' = NoMsg) => C15_Frame(inFlight.match_id)

C15_TableOwnedByLoop ==
    active_games' # active_games
        => /\ poolState = "running"
           /\ PoolProcesses \/ (inFlight # NoMsg /\ inFlight' = NoMsg)

C15_OtherJobsUntouched ==
    /\ [][C15_FrameStep]_vars
    /\ [][C15_TableOwnedByLoop]_vars

\* A message for one id was processed with a failed publish while a job of
\* another id was tracked, and that job is still tracked and not aborted.
C15_Witness ==
    /\ lastMsg.publish = "failed"
    /\ lastMsg.hadEntry
    /\ \E e \in active_games :
          /\ e.id # lastMsg.match_id
          /\ e.handle < lastMsg.job
          /\ ~jobs[e.handle].aborted

KeyOf(m) == <<m.type, m.match_id>>

C17_TakeStep ==
    PoolProcesses
        => /\ poolState = "running"
           /\ inFlight = NoMsg
           /\ IF Head(mailbox).type \in {"GameComplete", "GameError"}
              THEN /\ KeyOf(inFlight') = KeyOf(Head(mailbox))
                   /\ inFlight'.job = Head(mailbox).job
                   /\ lastMsg' = lastMsg
              ELSE /\ KeyOf(lastMsg') = KeyOf(Head(mailbox))
                   /\ inFlight' = NoMsg

C17_QueueStep ==
    mailbox' # mailbox
        => \/ PoolProcesses
           \/ /\ Len(mailbox') = Len(mailbox) + 1
              /\ SubSeq(mailbox', 1, Len(mailbox)) = mailbox

C17_AwaitStep ==
    inFlight # NoMsg
        => \/ /\ inFlight' = NoMsg
              /\ KeyOf(lastMsg') = KeyOf(inFlight)
              /\ mailbox' = mailbox
           \/ /\ inFlight' = inFlight
              /\ active_games' = active_games
              /\ attempts' = attempts
              /\ lastMsg' = lastMsg
              /\ ~PoolProcesses

C17_OneAtATimeInOrder ==
    /\ [][C17_TakeStep]_vars
    /\ [][C17_QueueStep]_vars
    /\ [][C17_AwaitStep]_vars
    /\ [][C15_TableOwnedByLoop]_vars

\* While the publish for one message is awaited, two more messages wait in
\* the mailbox.
C17_Witness ==
    /\ inFlight # NoMsg
    /\ Len(mailbox) = 2
    /\ mailbox[1].type = "StartGame"

\* C18: after a termination signal run_service sends Shutdown first (it is
\* in the mailbox, or taken, before any abort is requested), then requests
\* the abort of both tasks together, returns only when both have settled,
\* and it always gets there.
ShutdownSent ==
    \/ \E i \in DOMAIN mailbox : mailbox[i].type = "Shutdown"
    \/ lastMsg.type = "Shutdown"
    \/ poolState # "running"

C18_Order ==
    /\ svcPc \in {"aborting", "joining", "exited"} => ShutdownSent
    /\ svcPc \in {"running", "shutting_down"}
          => \A i \in DOMAIN mailbox : mailbox[i].type # "Shutdown"
    /\ poolAbortReq = consumerAbortReq
    /\ poolAbortReq <=> svcPc \in {"joining", "exited"}
    /\ svcPc = "exited"
          => /\ consumerPc \in {"returned", "aborted"}
             /\ poolState \in {"stopped", "aborted"}
    /\ svcPc # "running" <=> svcCause # "none"

C18_ShutdownSequenceCompletes ==
    /\ []C18_Order
    /\ (svcPc = "shutting_down" /\ svcCause = "signal") ~> (svcPc = "exited")

\* After a signal the service exited: the pool had processed Shutdown while
\* a job was tracked, and the consumer was cancelled.
C18_Witness ==
    /\ svcPc = "exited"
    /\ svcCause = "signal"
    /\ poolState = "stopped"
    /\ consumerPc = "aborted"
    /\ \E j \in DOMAIN jobs : jobs[j].aborted

\* C19: run_service leaves its wait only on a signal or when a service
\* task has ended, and a task ends only when the consumer's stream (or its
\* setup) stops it: a handler that failed on a delivery and a job that
\* failed leave both tasks alive, so that only a signal can begin the
\* shutdown; it does begin once the consumer has returned on a stream
\* failure, and a signal can begin it at any time.
C19_Causes ==
    /\ svcCause \in {"none", "signal", "task_ended"}
    /\ svcCause = "task_ended"
          => /\ consumerPc = "returned"
             /\ consumerRes.cause \in {"stream_error", "stream_end", "setup"}
    /\ (svcPc = "running" /\ consumerPc # "returned")
          => /\ poolState = "running"
             /\ ~ENABLED SvcSelect("task_ended")
    /\ svcPc = "running" => ENABLED SvcSelect("signal")
    /\ (svcPc = "running" /\ consumerRes.cause = "stream_error")
          => ENABLED SvcSelect("task_ended")

C19_ShutdownOnlyOnStreamOrSignal ==
    /\ []C19_Causes
    /\ (consumerRes.cause = "stream_error") ~> (svcPc # "running")

\* A handler failed on a delivery and a job failed with its publish failed
\* too, and the service is still running with the consumer waiting.
C19_Witness ==
    /\ svcPc = "running"
    /\ consumerPc = "waiting"
    /\ handlerErrs > 0
    /\ lastMsg.type = "GameError"
    /\ lastMsg.publish = "failed"

\* ------------------------------------------------------------------ C20
\* Successful publishes to the outgoing topic under routing key k among the
\* first n publishes.
PublishedUnder(k, n) ==
    {i \in 1..n : /\ attempts[i].ok
                  /\ attempts[i].topic = OutgoingTopic
                  /\ attempts[i].key = k}

\* C20 as stated: a job-complete event published with routing key K and then
\* a consume_one on the outgoing topic with routing key K: the published
\* message reaches the one-shot consumer, what consume_one returns is the
\* payload of such a publish, and it was published under K.
C20_PublishThenConsumeOne ==
    /\ (oneShot.pc = "consuming" /\ PublishedUnder(oneShot.key, oneShot.calledAt) # {})
          => \E j \in 1..Len(oneShot.queue) :
                 oneShot.queue[j].idx \in PublishedUnder(oneShot.key, oneShot.calledAt)
    /\ (oneShot.result.res = "Ok" /\ PublishedUnder(oneShot.key, oneShot.calledAt) # {})
          => \E i \in PublishedUnder(oneShot.key, oneShot.calledAt) :
                 oneShot.result.data = attempts[i].payload
    /\ oneShot.result.res = "Ok" => oneShot.result.key = oneShot.key

\* C20 (amended): consume_one returns the payload of the first message
\* published to the outgoing topic after its queue was bound, under a routing
\* key its binding key matches as a topic pattern (K itself, or any key when
\* K is "#"); it acknowledges that one delivery and no other, and a message
\* published before the bind is never returned.
C20_ReturnsFirstPublishAfterBind ==
    /\ oneShot.acked = (IF oneShot.result.res = "Ok" THEN 1 ELSE 0)
    /\ oneShot.result.res = "Ok" =>
         LET r == oneShot.result
             matching(i) == /\ attempts[i].ok
                            /\ attempts[i].topic = OutgoingTopic
                            /\ (attempts[i].key = oneShot.key \/ oneShot.key = "#")
         IN /\ oneShot.pc = "returned"
            /\ r.idx \in (oneShot.boundAt + 1)..Len(attempts)
            /\ matching(r.idx)
            /\ r.data = attempts[r.idx].payload
            /\ r.key = attempts[r.idx].key
            /\ \A j \in (oneShot.boundAt + 1)..(r.idx - 1) : ~matching(j)

\* consume_one returned the payload of the second publish: the first one was
\* published under the same key with another payload before the call, and
\* succeeded.
C20_Witness ==
    /\ oneShot.pc = "returned"
    /\ oneShot.result.res = "Ok"
    /\ oneShot.result.idx = 2
    /\ oneShot.calledAt = 1
    /\ attempts[1].ok
    /\ attempts[1].key = oneShot.key
    /\ attempts[1].payload # oneShot.result.data

\* ------------------------------------------------------------------ C21
\* C21: for every players list of a StartGame (0 to 4 players here), the
\* game is built with exactly 4 seats, seat i holding the i-th supplied
\* player where there is one and the default bot otherwise, in the order
\* supplied; building the seats never fails.
C21_FourSeatsPadded ==
    /\ seating.pc # "seat_error"
    /\ seating.pc \in {"seated", "constructed", "engine_error"} =>
         /\ Len(seating.seat_controllers) = 4
         /\ \A i \in 1..4 :
              seating.seat_controllers[i] =
                  IF i <= Len(seating.players) THEN seating.players[i]
                  ELSE "AngryDiscardoBot"

\* A game constructed from a list of two different players: two seats hold
\* them in order and two hold the default bot.
C21_Witness ==
    /\ seating.pc = "constructed"
    /\ seating.players = <<"p2", "p1">>
    /\ seating.seat_controllers = <<"p2", "p1", "AngryDiscardoBot", "AngryDiscardoBot">>

\* ------------------------------------------------------------------ C22
\* C22: new returns a client only after the connection and a channel are
\* open and the incoming and the outgoing topic have both been declared as
\* durable topic exchanges; when the connection, the channel or a
\* declaration fails, new returns an error and there is no client, so no
\* method of a client is ever called.
C22_ClientOnlyAfterDurableTopics ==
    /\ client.res = "Ok" =>
         /\ client.connection
         /\ client.channel
         /\ \A t \in {IncomingTopic, OutgoingTopic} :
              \E e \in client.exchanges :
                  e.name = t /\ e.kind = "topic" /\ e.durable
    /\ client.cause # "none" => client.pc = "returned" /\ client.res = "Err"
    /\ client.res # "Ok" => attempts = <<>> /\ oneShot = NoOneShot

\* ------------------------------------------------------------------ C23
\* The deliveries among the first n whose payload the handler decoded.
DecodedUpTo(n) == {k \in 1..n : deliveries[k].handled > 0 /\ FromSlice(deliveries[k].payload).ok}

\* The deliveries among the first n whose StartGame the mailbox took.
SubmittedUpTo(n) == {k \in DecodedUpTo(n) : deliveries[k].sendRes = "Ok"}

\* The mailbox is first-in first-out and only the handler sends StartGame
\* here, so the k-th submitted start is the k-th job.
JobOfDelivery(n) == Cardinality(SubmittedUpTo(n))

\* A publish of the completion event of delivery n's job under its match_id
\* was attempted.
CompletionAttempted(n) ==
    \E i \in 1..Len(attempts) :
        /\ n <= Len(deliveries)
        /\ attempts[i].job = JobOfDelivery(n)
        /\ attempts[i].topic = OutgoingTopic
        /\ attempts[i].key = FromSlice(deliveries[n].payload).match_id
        /\ attempts[i].payload = CreateGameCompleteMessage(attempts[i].key)

\* C23 as stated, in the part a finite run shows: no start event whose
\* payload decoded is acknowledged and lost: each one is in the mailbox or
\* has a job (nothing sends GameFinished or Shutdown in these runs).
C23_DecodedStartNeverLost ==
    Cardinality(DecodedUpTo(Len(deliveries))) = Len(QueuedStarts) + Len(jobs)

\* C23 (amended): a start event whose payload decodes and that the mailbox
\* has room for when the handler submits it is queued or has a job, and
\* leads to a publish attempt of the completion event of its job under its
\* match_id, the engine run terminating and nothing sending GameFinished or
\* Shutdown; a start event submitted to a full mailbox is dropped. (The
\* deliveries are finitely many and an attempt made stays made, so "each
\* submitted start leads to its attempt" is "from some point on every
\* submitted start has its attempt".)
C23_SubmittedStartLeadsToPublish ==
    /\ [](Cardinality(SubmittedUpTo(Len(deliveries))) = Len(QueuedStarts) + Len(jobs))
    /\ <>[](\A n \in SubmittedUpTo(Len(deliveries)) : CompletionAttempted(n))

\* Three start events in a burst: the third found the mailbox full and was
\* acknowledged, and the completion events of the first two were published.
C23_Witness ==
    /\ Len(deliveries) = 3
    /\ deliveries[3].sendRes = "Full"
    /\ deliveries[3].acked = 1
    /\ SubmittedUpTo(3) = {1, 2}
    /\ CompletionAttempted(1) /\ CompletionAttempted(2)
    /\ \A i \in 1..Len(attempts) : attempts[i].ok

\* ------------------------------------------------------------------ C24
\* C24: while the pool runs, every worker it started that has not returned
\* and whose cancellation has not been requested has its handle in the
\* active table (so GameFinished and Shutdown reach every running job), and
\* no two such workers run under one id: a StartGame for an id that is
\* already active neither drops the earlier handle uncancelled nor leaves
\* two workers under one entry.
C24_RunningJobsTracked ==
    LET live == {j \in DOMAIN jobs : /\ jobs[j].worker \in {"queued", "running"}
                                     /\ ~jobs[j].aborted}
    IN poolState = "running" =>
         /\ \A j \in live : j \in Handles(active_games)
         /\ \A j, k \in live : jobs[j].id = jobs[k].id => j = k

\* ------------------------------------------------------------------ C25
\* C25: when the service shuts down on a termination signal, the pool loop
\* processes the Shutdown message it was sent (aborting every tracked handle
\* and clearing the table) before abort_all stops the pool task: the pool
\* task is never cancelled with its Shutdown message unprocessed, jobs still
\* in its table.
C25_ShutdownProcessedBeforeAbort ==
    (svcCause = "signal" /\ poolState = "aborted")
        => /\ \A i \in 1..Len(mailbox) : mailbox[i].type # "Shutdown"
           /\ active_games = {}

\* ------------------------------------------------------------------ C26
\* C26: in the submit-and-wait tool, the queue of the one-shot consumer is
\* bound to the outgoing topic under the match id before the completion
\* event of that match is published, whatever the interleaving of the
\* consume task with the publish of the start event and the service's work;
\* so the event reaches the tool.
C26_BoundBeforeCompletionPublished ==
    \A i \in 1..Len(attempts) :
        (tool.pc # "idle" /\ attempts[i].ok /\ attempts[i].key = tool.match_id)
            => /\ \/ oneShot.pc \in {"bound", "consuming", "acking"}
                  \/ /\ oneShot.pc = "returned"
                     /\ \/ oneShot.result.res = "Ok"
                        \/ oneShot.result.data \in {"consume", "stream_error",
                                                    "no_message", "ack"}
               /\ oneShot.boundAt < i

====
